---- MODULE Spec2Model ----
(***************************************************************************)
(* Model of pistache's stream layer (src/src/stream.h, src/src/stream.cc): *)
(* the StreamBuf window, RawStreamBuf, ArrayStreamBuf<N>, NetworkStream,   *)
(* StreamCursor with its Token and Revert helpers, and the matchers.       *)
(*                                                                         *)
(* Pointers are indices into the byte region `bytes`; nullptr is NullPtr.  *)
(* A RawStreamBuf views the first len bytes of a NUL-terminated region of  *)
(* MemLen characters (index MemLen holds the terminator), so a window may  *)
(* be a strict prefix of the region it points into.                        *)
(***************************************************************************)
EXTENDS Integers, Sequences, FiniteSets, TLC

\* ---------------------------------------------------------------- bounds
MemLen == 3        \* characters of the external region before its terminator
MaxCount == 4      \* largest count passed to advance
MaxRawLen == 2     \* longest byte sequence passed to match_raw
MaxGuards == 2     \* Revert objects alive at once
ArrayN == 4        \* the capacity N of ArrayStreamBuf<N>
MaxFeed == 4       \* longest data passed to feed
MaxInitSize == 4   \* largest initial size given to NetworkStream
MaxMaxSize == 6    \* largest maxSize given to NetworkStream
WritesPast == 2    \* writes attempted beyond maxSize

\* ------------------------------------------------------------- constants
CR == 13
LF == 10
Eof == -1
NullPtr == -1

\* The bytes the model draws contents and arguments from:
\* NUL, LF, CR, '.', '3', 'H', 'h'.
Byte == {0, 10, 13, 46, 51, 72, 104}
\* Bytes a caller puts into a region (the terminator is added by the region).
Char == Byte \ {0}
\* Bytes of the patterns handed to match_raw.
PatByte == {51, 72}

Sensitive == "Sensitive"
Insensitive == "Insensitive"
CaseSensitivity == {Sensitive, Insensitive}

VARIABLES
    bytes,      \* the byte region the window points into (0-based function)
    size,       \* ArrayStreamBuf::size
    area,       \* the get area of the StreamBuf: [eback, gptr, egptr]
    guards,     \* the live Revert objects, innermost last
    tok,        \* the live Token objects (at most one) with their capture history
    last,       \* the last call made: its name, argument, result and pre-state
    data_,      \* NetworkStream::data_
    pptr,       \* NetworkStream put pointer, as an offset from &data_[0]
    epptr,      \* NetworkStream end of put area, as an offset from &data_[0]
    maxSize_,   \* NetworkStream::maxSize_
    nsLast,     \* result of the last write to the NetworkStream
    nsWrites,   \* number of one-byte writes attempted
    nsOk        \* number of one-byte writes that reported success

cursorVars == <<bytes, size, area, guards, tok, last>>
nsVars == <<data_, pptr, epptr, maxSize_, nsLast, nsWrites, nsOk>>
vars == <<bytes, size, area, guards, tok, last,
          data_, pptr, epptr, maxSize_, nsLast, nsWrites, nsOk>>

\* ------------------------------------------------------------- StreamBuf
Area(b, c, e) == [eback |-> b, gptr |-> c, egptr |-> e]

\* StreamBuf::setArea: setg(begin, current, end)
setArea(begin, current, end) == Area(begin, current, end)

\* StreamBuf::position
position(w) == w.gptr - w.eback

\* StreamBuf::reset: setg(nullptr, nullptr, nullptr)
reset == Area(NullPtr, NullPtr, NullPtr)

\* basic_streambuf::in_avail as StreamCursor uses it: egptr - gptr, or
\* showmanyc() (0 for these buffers) when that difference is zero.
in_avail(w) == IF w.egptr - w.gptr # 0 THEN w.egptr - w.gptr ELSE 0

\* basic_streambuf::sgetc: the byte at gptr, or eof (underflow) at the end.
sgetc(w) == IF w.gptr < w.egptr THEN bytes[w.gptr] ELSE Eof

\* basic_streambuf::sbumpc: step over one byte; at the end uflow fails and
\* the get area is left alone.
sbumpc(w) == IF w.gptr < w.egptr THEN [w EXCEPT !.gptr = @ + 1] ELSE w

\* StreamBuf::snext
snext(w) == IF w.gptr = w.egptr THEN Eof ELSE bytes[w.gptr + 1]

\* ---------------------------------------------------------- StreamCursor
\* StreamCursor::remaining
remaining(w) == in_avail(w)

RECURSIVE bump(_, _)
\* the loop of StreamCursor::advance: count calls of sbumpc
bump(w, count) == IF count = 0 THEN w ELSE bump(sbumpc(w), count - 1)

\* A call's outcome: its return value, the get area it leaves, and the sum of
\* the counts of the advance calls that succeeded inside it.
Outcome(r, w, n) == [ret |-> r, area |-> w, n |-> n]

\* advance with the bound test written as >=
advance_ge(w, count) ==
    IF count >= in_avail(w)
    THEN Outcome(FALSE, w, 0)
    ELSE Outcome(TRUE, bump(w, count), count)

\* StreamCursor::advance
advance(w, count) ==
    IF count > in_avail(w)
    THEN Outcome(FALSE, w, 0)
    ELSE Outcome(TRUE, bump(w, count), count)

\* StreamCursor::eof
eof(w) == remaining(w) = 0

\* StreamCursor::next
next(w) == IF in_avail(w) < 1 THEN Eof ELSE snext(w)

\* StreamCursor::eol
eol(w) == sgetc(w) = CR /\ next(w) = LF

\* StreamCursor::current
current(w) == sgetc(w)

\* StreamCursor::offset()
offset(w) == w.gptr

\* -------------------------------------------------------------- matchers
\* std::tolower in the "C" locale
tolower(c) == IF c \in 65..90 THEN c + 32 ELSE c

\* a comparison that stops after the first byte
memcmp0_first(p, buf, len) == len = 0 \/ bytes[p] = buf[1]

\* memcmp(p, buf, len) == 0, with buf a sequence of len bytes
memcmp0(p, buf, len) == \A i \in 0..(len - 1) : bytes[p + i] = buf[i + 1]

\* match_raw advancing before it looks at the result of the comparison
match_raw_eager(buf, len, w) ==
    IF in_avail(w) < len
    THEN Outcome(FALSE, w, 0)
    ELSE Outcome(memcmp0(w.gptr, buf, len), bump(w, len), len)

\* match_raw
match_raw(buf, len, w) ==
    IF remaining(w) < len
    THEN Outcome(FALSE, w, 0)
    ELSE IF memcmp0(offset(w), buf, len)
         THEN Outcome(TRUE, advance(w, len).area, advance(w, len).n)
         ELSE Outcome(FALSE, w, 0)

\* match_literal
match_literal(c, w, cs) ==
    IF eof(w)
    THEN Outcome(FALSE, w, 0)
    ELSE LET lhs == IF cs = Sensitive THEN c ELSE tolower(c)
             rhs == IF cs = Insensitive THEN current(w) ELSE tolower(current(w))
         IN  IF lhs = rhs
             THEN Outcome(TRUE, advance(w, 1).area, advance(w, 1).n)
             ELSE Outcome(FALSE, w, 0)

\* match_until(std::initializer_list<char>, ...): the lambda find
find(chars, val, cs) ==
    \E c \in chars :
        LET lhs == IF cs = Sensitive THEN c ELSE tolower(c)
            rhs == IF cs = Insensitive THEN val ELSE tolower(val)
        IN  lhs = rhs

RECURSIVE scan(_, _, _, _)
\* match_until: the while loop; n sums the advance(1) calls that succeeded
scan(chars, w, cs, n) ==
    IF eof(w)
    THEN Outcome(FALSE, w, n)
    ELSE IF find(chars, current(w), cs)
         THEN Outcome(TRUE, w, n)
         ELSE scan(chars, advance(w, 1).area, cs, n + advance(w, 1).n)

\* match_until (the single-character overload forwards { c })
match_until(chars, w, cs) ==
    IF eof(w) THEN Outcome(FALSE, w, 0) ELSE scan(chars, w, cs, 0)

\* the bytes isspace and isdigit accept in the "C" locale, the signs, 'e'/'E'
Space == {32, 9, 10, 11, 12, 13}
Digit == 48..57
Sign == {43, 45}
Expo == {69, 101}

RECURSIVE skip(_, _)
\* first index at or after p whose byte is not in class S; strtod has no
\* length argument, it stops at the first byte that does not fit (at the
\* latest the NUL that ends the region)
skip(p, S) == IF p \in DOMAIN bytes /\ bytes[p] \in S THEN skip(p + 1, S) ELSE p

\* is the byte at p one of S (a read of the region, wherever the window ends)
peek(p, S) == p \in DOMAIN bytes /\ bytes[p] \in S

RECURSIVE numeral(_, _)
\* the number the decimal digits at p .. q-1 spell
numeral(p, q) ==
    IF q <= p THEN 0 ELSE numeral(p, q - 1) * 10 + (bytes[q - 1] - 48)

RECURSIVE pow10(_)
pow10(k) == IF k = 0 THEN 1 ELSE 10 * pow10(k - 1)

\* A double, as the decimal it was read from: (-1)^neg * mant * 10^exp10.
Double(neg, mant, exp10) == [neg |-> neg, mant |-> mant, exp10 |-> exp10]
Zero == Double(FALSE, 0, 0)

\* strtod(nptr, &end): the value returned, the value of end, and far, the
\* last index it reads. Decimal form: white space, optional sign, digits with
\* an optional '.', optional exponent; with no digits no conversion is
\* performed, the value is zero and end = nptr. (The hexadecimal, "inf" and
\* "nan" forms need letters the contents here do not spell.)
strtod(nptr) ==
    LET s0 == skip(nptr, Space)
        s1 == IF peek(s0, Sign) THEN s0 + 1 ELSE s0
        d1 == skip(s1, Digit)
        dot == peek(d1, {46})
        f1 == IF dot THEN skip(d1 + 1, Digit) ELSE d1
        frac == IF dot THEN f1 - (d1 + 1) ELSE 0
        digits == (d1 - s1) + frac
        e1 == IF peek(f1 + 1, Sign) THEN f1 + 2 ELSE f1 + 1
        e2 == skip(e1, Digit)
        expo == digits > 0 /\ peek(f1, Expo)
        power == IF expo /\ e2 > e1
                 THEN (IF peek(f1 + 1, {45}) THEN 0 - numeral(e1, e2)
                       ELSE numeral(e1, e2))
                 ELSE 0
        mant == numeral(s1, d1) * pow10(frac) + numeral(d1 + 1, f1)
    IN  [val |-> IF digits = 0 THEN Zero
                 ELSE Double(peek(s0, {45}), mant, power - frac),
         end |-> IF digits = 0 THEN nptr
                 ELSE IF expo /\ e2 > e1 THEN e2
                 ELSE f1,
         far |-> IF expo THEN e2 ELSE f1]

\* strtod(nptr, &end): the value of end
strtod_end(nptr) == strtod(nptr).end

\* match_double: *val is assigned before end is looked at, and the result of
\* advance is not looked at. The outcome carries the value *val holds after.
match_double(val, w) ==
    LET end == strtod_end(offset(w))
        out == strtod(offset(w)).val
    IN  IF end = offset(w)
        THEN [ret |-> FALSE, area |-> w, n |-> 0, val |-> out]
        ELSE [ret |-> TRUE, area |-> advance(w, end - offset(w)).area,
              n |-> advance(w, end - offset(w)).n, val |-> out]

\* ------------------------------------------------------------ bytes read
\* The indices of `bytes` a call reads, by the statement that reads them.
\* sgetc: *gptr when gptr < egptr
reads_sgetc(w) == IF w.gptr < w.egptr THEN {w.gptr} ELSE {}

\* StreamBuf::snext: *(gptr + 1) unless gptr == egptr
reads_snext(w) == IF w.gptr = w.egptr THEN {} ELSE {w.gptr + 1}

\* StreamCursor::next
reads_next(w) == IF in_avail(w) < 1 THEN {} ELSE reads_snext(w)

\* StreamCursor::eol: next() is called only when sgetc() == CR
reads_eol(w) == reads_sgetc(w) \cup (IF sgetc(w) = CR THEN reads_next(w) ELSE {})

\* match_raw: memcmp looks at no more than len bytes from offset()
reads_match_raw(buf, len, w) ==
    IF remaining(w) < len THEN {} ELSE offset(w)..(offset(w) + len - 1)

\* match_literal: current() after the eof() test
reads_match_literal(w) == IF eof(w) THEN {} ELSE reads_sgetc(w)

\* match_until: current() at every position up to the one it stops at
reads_match_until(chars, w, cs) ==
    {i \in w.gptr..(w.egptr - 1) : i <= match_until(chars, w, cs).area.gptr}

\* match_double: strtod reads from offset() up to the byte that stops it
reads_match_double(w) ==
    {i \in DOMAIN bytes : offset(w) <= i /\ i <= strtod(offset(w)).far}

\* ------------------------------------------------------------------ Token
\* StreamCursor::Token::Token
Token(w) ==
    [position |-> position(w), eback |-> w.eback, gptr |-> w.gptr,
     egptr |-> w.egptr]

\* Token::start
tokenStart(t) == t.position

\* Token::end: the live position of the cursor's buffer
tokenEnd(t, w) == position(w)

\* Token::size without the subtraction of start()
tokenSize_end(t, w) == tokenEnd(t, w)

\* Token::size
tokenSize(t, w) == tokenEnd(t, w) - tokenStart(t)

\* Token::text: std::string(gptr, size())
tokenText(t, w) == [i \in 1..tokenSize(t, w) |-> bytes[t.gptr + i - 1]]

\* Token::rawText
rawText(t) == t.gptr

\* ----------------------------------------------------------------- Revert
\* Revert::Revert taking begptr() for the current pointer as well
Revert_begptr(w) ==
    [eback |-> w.eback, gptr |-> w.eback, egptr |-> w.egptr, active |-> TRUE]

\* StreamCursor::Revert::Revert
Revert(w) ==
    [eback |-> w.eback, gptr |-> w.gptr, egptr |-> w.egptr, active |-> TRUE]

\* Revert::revert
revert(g) == setArea(g.eback, g.gptr, g.egptr)

\* Revert::ignore
ignore(g) == [g EXCEPT !.active = FALSE]

\* ~Revert without the test of active
RevertDtor_always(g, w) == revert(g)

\* Revert::~Revert: the get area the destructor leaves
RevertDtor(g, w) == IF g.active THEN revert(g) ELSE w

\* --------------------------------------------------------- ArrayStreamBuf
\* The result of a buffer call: return value, array, size and get area.
Fed(r, b, sz, w) == [ret |-> r, bytes |-> b, size |-> sz, area |-> w]

\* memcpy(bytes + size, data, len)
memcpy(b, at, data, len) ==
    [i \in DOMAIN b |-> IF i \in at..(at + len - 1) THEN data[i - at + 1] ELSE b[i]]

\* feed with the capacity test written as >
feed_gt(data, len) ==
    IF size + len > ArrayN
    THEN Fed(FALSE, bytes, size, area)
    ELSE Fed(TRUE, memcpy(bytes, size, data, len), size + len,
             setArea(0, size, size + len))

\* feed putting the current pointer back at the start of the array
feed_rewind(data, len) ==
    IF size + len >= ArrayN
    THEN Fed(FALSE, bytes, size, area)
    ELSE Fed(TRUE, memcpy(bytes, size, data, len), size + len,
             setArea(0, 0, size + len))

\* feed passing current and end to setg in the wrong order
feed_swapped(data, len) ==
    IF size + len >= ArrayN
    THEN Fed(FALSE, bytes, size, area)
    ELSE Fed(TRUE, memcpy(bytes, size, data, len), size + len,
             setArea(0, size + len, size))

\* ArrayStreamBuf::feed
feed(data, len) ==
    IF size + len >= ArrayN
    THEN Fed(FALSE, bytes, size, area)
    ELSE Fed(TRUE, memcpy(bytes, size, data, len), size + len,
             setArea(0, size, size + len))

\* memset(bytes, 0, N)
zeroed == [i \in 0..(ArrayN - 1) |-> 0]

\* ArrayStreamBuf::reset
arrayReset == Fed(TRUE, zeroed, 0, setArea(0, 0, 0))

\* ---------------------------------------------------------- NetworkStream
\* std::vector<char>::resize
resize(d, n) == [i \in 1..n |-> IF i <= Len(d) THEN d[i] ELSE 0]

\* The put area after a call: the vector and pptr/epptr as offsets in it.
Put(d, p, e) == [data_ |-> d, pptr |-> p, epptr |-> e]

\* NetworkStream::reserve
reserve(d, sz) ==
    LET clamped == IF sz > maxSize_ THEN maxSize_ ELSE sz
        oldSize == Len(d)
    IN  Put(resize(d, clamped), oldSize, clamped)

\* NetworkStream::buffer: the len of the Buffer
bufferLen == pptr

\* ---------------------------------------------------------------- traces
\* The record of a call: name, argument, result, and the state before it.
Call(op, arg, ret) ==
    [op |-> op, arg |-> arg, ret |-> ret,
     pre |-> area, preSize |-> size, preBytes |-> bytes]

\* The process is gone once a call has dereferenced nullptr.
Running == last.op # "SIGSEGV"

\* Capture history of the live token: n more bytes consumed by advance calls.
Consumed(n) == [i \in DOMAIN tok |-> [tok[i] EXCEPT !.N = @ + n]]

\* Capture history of the live token: the window was replaced under it.
Replaced == [i \in DOMAIN tok |-> [tok[i] EXCEPT !.clean = FALSE]]

\* A cursor call with outcome r
Step(op, arg, r) ==
    /\ Running
    /\ area' = r.area
    /\ last' = Call(op, arg, r.ret)
    /\ tok' = Consumed(r.n)
    /\ UNCHANGED <<bytes, size, guards>>
    /\ UNCHANGED nsVars

\* A cursor call that only looks
Look(op, ret) ==
    /\ Running
    /\ last' = Call(op, 0, ret)
    /\ UNCHANGED <<bytes, size, area, guards, tok>>
    /\ UNCHANGED nsVars

\* ------------------------------------------------------------------ Init
\* The region a caller hands to RawStreamBuf: the characters s and their NUL.
Region(s) == [i \in 0..Len(s) |-> IF i < Len(s) THEN s[i + 1] ELSE 0]

\* "Host: example.com\r\n"
HostLine ==
    <<72, 111, 115, 116, 58, 32, 101, 120, 97, 109, 112, 108, 101, 46, 99,
      111, 109, 13, 10>>

Texts == [1..MemLen -> Char]

NsIdle ==
    /\ data_ = <<>>
    /\ pptr = 0
    /\ epptr = 0
    /\ maxSize_ = 0
    /\ nsLast = "none"
    /\ nsWrites = 0
    /\ nsOk = 0

\* RawStreamBuf(begin, len) over the region of s, then StreamCursor(buf)
\* with initialPos = 0.
RawStreamBuf(S) ==
    /\ \E s \in S :
          /\ bytes = Region(s)
          /\ \E len \in 0..Len(s) : area = setArea(0, 0, len)
    /\ size = 0
    /\ guards = <<>>
    /\ tok = <<>>
    /\ last = [op |-> "StreamCursor", arg |-> 0, ret |-> advance(area, 0).ret,
               pre |-> area, preSize |-> size, preBytes |-> bytes]

Init == RawStreamBuf(Texts \cup {HostLine}) /\ NsIdle

\* --------------------------------------------------------------- actions
Advance == \E count \in 0..MaxCount : Step("advance", count, advance(area, count))

PeekNext == Look("next", next(area))

Eol == Look("eol", eol(area))

MatchRaw ==
    \E len \in 0..MaxRawLen : \E buf \in [1..len -> PatByte] :
        Step("match_raw", buf, match_raw(buf, len, area))

MatchLiteral ==
    \E c \in {51, 72, 104}, cs \in CaseSensitivity :
        Step("match_literal", <<c, cs>>, match_literal(c, area, cs))

MatchUntil ==
    \E chars \in SUBSET {72, 104}, cs \in CaseSensitivity :
        Step("match_until", <<chars, cs>>, match_until(chars, area, cs))

\* strtod(nullptr, ...) after StreamCursor::reset dereferences nullptr.
MatchDouble ==
    IF offset(area) = NullPtr
    THEN /\ Running
         /\ last' = Call("SIGSEGV", 0, FALSE)
         /\ UNCHANGED <<bytes, size, area, guards, tok>>
         /\ UNCHANGED nsVars
    ELSE \E val \in {Zero, Double(FALSE, 7, 0)} :
             Step("match_double",
                  [val |-> val, out |-> match_double(val, area).val],
                  match_double(val, area))

\* StreamCursor::reset: buf->reset() is StreamBuf<char>::reset
CursorReset ==
    /\ Running
    /\ area' = reset
    /\ last' = Call("reset", 0, TRUE)
    /\ tok' = Replaced
    /\ UNCHANGED <<bytes, size, guards>>
    /\ UNCHANGED nsVars

Next ==
    \/ Advance
    \/ PeekNext
    \/ Eol
    \/ MatchRaw
    \/ MatchLiteral
    \/ MatchUntil
    \/ MatchDouble
    \/ CursorReset

Spec == Init /\ [][Next]_vars

\* ------------------------------------------------- Revert and Token scopes
\* A Revert object enters scope; born remembers the window it was made at.
RevertEnter ==
    /\ Running
    /\ Len(guards) < MaxGuards
    /\ guards' = Append(guards, [g |-> Revert(area), born |-> area])
    /\ last' = Call("Revert", 0, TRUE)
    /\ UNCHANGED <<bytes, size, area, tok>>
    /\ UNCHANGED nsVars

\* ignore() on a live Revert object
RevertIgnore ==
    /\ Running
    /\ \E i \in DOMAIN guards :
          /\ guards[i].g.active
          /\ guards' = [guards EXCEPT ![i].g = ignore(@)]
    /\ UNCHANGED <<bytes, size, area, tok, last>>
    /\ UNCHANGED nsVars

\* The innermost Revert object leaves scope (objects of a scope are destroyed
\* in reverse order of construction). The call record keeps the object and,
\* when the call before was the destruction of the object nested in it, that
\* object too.
RevertLeave ==
    /\ Running
    /\ guards # <<>>
    /\ LET e == guards[Len(guards)]
       IN  /\ area' = RevertDtor(e.g, area)
           /\ last' = Call("~Revert",
                           [guard |-> e,
                            inner |-> IF last.op = "~Revert"
                                      THEN <<last.arg.guard>> ELSE <<>>],
                           TRUE)
           /\ tok' = IF e.g.active THEN Replaced ELSE tok
    /\ guards' = SubSeq(guards, 1, Len(guards) - 1)
    /\ UNCHANGED <<bytes, size>>
    /\ UNCHANGED nsVars

\* A Token is captured; P and N start its history: the position it was
\* captured at and the bytes consumed since.
TokenCapture ==
    /\ Running
    /\ tok' = <<[t |-> Token(area), P |-> area.gptr - area.eback, N |-> 0,
                 clean |-> TRUE]>>
    /\ last' = Call("Token", 0, TRUE)
    /\ UNCHANGED <<bytes, size, area, guards>>
    /\ UNCHANGED nsVars

\* The texts of the scopes' regions: '3', 'H'.
ScopeTexts == [1..MemLen -> {51, 72}]

InitScope == RawStreamBuf(ScopeTexts) /\ NsIdle

Moves ==
    \/ Advance
    \/ MatchRaw
    \/ MatchLiteral
    \/ MatchUntil
    \/ MatchDouble

NextRevert ==
    \/ Moves
    \/ RevertEnter
    \/ RevertIgnore
    \/ RevertLeave

SpecRevert == InitScope /\ [][NextRevert]_vars

NextToken ==
    \/ Moves
    \/ CursorReset
    \/ TokenCapture

SpecToken == InitScope /\ [][NextToken]_vars

\* --------------------------------------------------- ArrayStreamBuf calls
\* The data a caller feeds: LF, 'H'.
FeedByte == {LF, 72}

\* A call on the ArrayStreamBuf with result r
Buffered(op, arg, r) ==
    /\ Running
    /\ bytes' = r.bytes
    /\ size' = r.size
    /\ area' = r.area
    /\ last' = Call(op, arg, r.ret)
    /\ tok' = Replaced
    /\ UNCHANGED guards
    /\ UNCHANGED nsVars

\* feed(data, len) with the bytes of data drawn from alphabet
FeedOf(alphabet) ==
    \E len \in 0..MaxFeed : \E data \in [1..len -> alphabet] :
        Buffered("feed", data, feed(data, len))

Feed == FeedOf(FeedByte)

ArrayReset == Buffered("ArrayStreamBuf::reset", 0, arrayReset)

\* ArrayStreamBuf<N>() and StreamCursor(buf)
InitArray ==
    /\ bytes = zeroed
    /\ size = 0
    /\ area = setArea(0, 0, 0)
    /\ guards = <<>>
    /\ tok = <<>>
    /\ last = [op |-> "StreamCursor", arg |-> 0, ret |-> advance(area, 0).ret,
               pre |-> area, preSize |-> size, preBytes |-> bytes]
    /\ NsIdle

NextArray ==
    \/ Feed
    \/ ArrayReset
    \/ CursorReset
    \/ Advance

SpecArray == InitArray /\ [][NextArray]_vars

\* Everything that sets the get area, on an ArrayStreamBuf with its cursor
\* and one Revert object at a time.  The fed bytes are all 'H': the window
\* depends on how much is fed, and the matchers still both match and fail.
NextWindow ==
    \/ FeedOf({72})
    \/ ArrayReset
    \/ CursorReset
    \/ Moves
    \/ (guards = <<>> /\ RevertEnter)
    \/ RevertIgnore
    \/ RevertLeave

SpecWindow == InitArray /\ [][NextWindow]_vars

\* ---------------------------------------------------- NetworkStream calls
\* NetworkStream(size, maxSize)
InitNS ==
    /\ bytes = Region(<<>>)
    /\ size = 0
    /\ area = setArea(0, 0, 0)
    /\ guards = <<>>
    /\ tok = <<>>
    /\ last = [op |-> "NetworkStream", arg |-> 0, ret |-> TRUE,
               pre |-> area, preSize |-> size, preBytes |-> bytes]
    /\ maxSize_ \in 0..MaxMaxSize
    /\ \E sz \in 0..MaxInitSize :
          /\ data_ = reserve(<<>>, sz).data_
          /\ pptr = reserve(<<>>, sz).pptr
          /\ epptr = reserve(<<>>, sz).epptr
    /\ nsLast = "none"
    /\ nsWrites = 0
    /\ nsOk = 0

\* *pptr() = ch; pbump(1) on the put area a. A put pointer outside the vector
\* (a vector of size 0 has no element to point at) makes the store undefined:
\* the process dies, or the byte lands outside the vector and the call goes on.
Store(a, ch) ==
    \/ /\ a.pptr < Len(a.data_)
       /\ data_' = [a.data_ EXCEPT ![a.pptr + 1] = ch]
       /\ pptr' = a.pptr + 1
       /\ epptr' = a.epptr
       /\ nsLast' = "ok"
       /\ nsOk' = nsOk + 1
    \/ /\ a.pptr >= Len(a.data_)
       /\ data_' = a.data_
       /\ \/ /\ pptr' = a.pptr + 1
             /\ epptr' = a.epptr
             /\ nsLast' = "ok"
             /\ nsOk' = nsOk + 1
          \/ /\ pptr' = a.pptr
             /\ epptr' = a.epptr
             /\ nsLast' = "SIGSEGV"
             /\ nsOk' = nsOk

\* NetworkStream::overflow(ch), ch a byte (never eof)
Overflow(ch) ==
    IF Len(data_) < maxSize_
    THEN Store(reserve(data_, Len(data_) * 2), ch)
    ELSE /\ nsLast' = "eof"
         /\ UNCHANGED <<data_, pptr, epptr, nsOk>>

\* One byte written through the streambuf: sputc(ch) stores at pptr while
\* pptr < epptr and calls overflow(ch) otherwise.
Write ==
    /\ nsLast # "SIGSEGV"
    /\ nsWrites < maxSize_ + WritesPast
    /\ nsWrites' = nsWrites + 1
    /\ \E ch \in FeedByte :
          IF pptr < epptr
          THEN Store(Put(data_, pptr, epptr), ch)
          ELSE Overflow(ch)
    /\ UNCHANGED maxSize_
    /\ UNCHANGED cursorVars

SpecNS == InitNS /\ [][Write]_vars

\* ---------------------------------------------------------------- claims
\* The window a call started from, and what was left to read in it.
Pre == last.pre
PreLeft == Pre.egptr - Pre.gptr

\* C1: advance(count) returns true and moves the position by exactly count,
\* keeping start and end, when count <= remaining(); otherwise it returns
\* false and leaves start, current and end as they were.
Thm_C1_advance ==
    last.op = "advance" =>
        IF last.arg <= PreLeft
        THEN /\ last.ret = TRUE
             /\ position(area) = position(Pre) + last.arg
             /\ area.eback = Pre.eback
             /\ area.egptr = Pre.egptr
        ELSE /\ last.ret = FALSE
             /\ area = Pre

\* an advance over all that was left, two bytes from position 1
Wit_C1_advance ==
    /\ last.op = "advance"
    /\ last.arg = 2
    /\ PreLeft = 2
    /\ position(Pre) = 1
    /\ last.ret = TRUE
    /\ position(area) = 3

\* C2: whenever match_raw, match_literal or match_double returns false, the
\* window (start, current, end) is what it was before the call.
Thm_C2_atomic ==
    (last.op \in {"match_raw", "match_literal", "match_double"} /\ last.ret = FALSE)
        => area = Pre

\* match_raw fails on its second byte after the first one matched
Wit_C2_atomic ==
    /\ last.op = "match_raw"
    /\ Len(last.arg) = 2
    /\ PreLeft >= 2
    /\ bytes[Pre.gptr] = last.arg[1]
    /\ bytes[Pre.gptr + 1] # last.arg[2]
    /\ last.ret = FALSE

\* C8: next() returns the byte after current when that byte is inside the
\* window, the EOF sentinel when one byte or none is left, and never moves
\* the window.
Cex_C8_next ==
    last.op = "next" =>
        /\ last.ret = (IF Pre.gptr + 1 < Pre.egptr THEN bytes[Pre.gptr + 1] ELSE Eof)
        /\ area = Pre

\* the window of the example: all of "Host: example.com\r\n", read up to pos
HostAt(pos) == bytes = Region(HostLine) /\ Pre = Area(0, pos, Len(HostLine))

\* C9: eol() is true iff the current byte is CR and the byte after it, inside
\* the window, is LF; in "Host: example.com\r\n" it is false at the ':'
\* (position 4) and true at position 18.
Cex_C9_eol ==
    last.op = "eol" =>
        /\ last.ret = (/\ Pre.gptr < Pre.egptr
                       /\ bytes[Pre.gptr] = CR
                       /\ Pre.gptr + 1 < Pre.egptr
                       /\ bytes[Pre.gptr + 1] = LF)
        /\ HostAt(4) => last.ret = FALSE
        /\ HostAt(18) => last.ret = TRUE

\* C10: match_literal(c, cursor, cs) is false at EOF, otherwise true iff c
\* equals the current byte (Sensitive) or both fold to the same lower-case
\* letter (Insensitive); it advances by exactly 1 when true.
Cex_C10_literal ==
    last.op = "match_literal" =>
        LET c == last.arg[1]
            cs == last.arg[2]
            same == IF cs = Sensitive
                    THEN c = bytes[Pre.gptr]
                    ELSE tolower(c) = tolower(bytes[Pre.gptr])
        IN  /\ last.ret = (PreLeft > 0 /\ same)
            /\ last.ret = TRUE => position(area) = position(Pre) + 1

\* C3: a Revert object destroyed without ignore() puts the window (start,
\* current, end) back to what it was when the object was constructed,
\* whatever advances were made in between; destroyed after ignore() it
\* leaves the window as the advances made it.
Thm_C3_revert ==
    last.op = "~Revert" =>
        IF last.arg.guard.g.active
        THEN area = last.arg.guard.born
        ELSE area = Pre

\* a rollback over two consumed bytes
Wit_C3_revert ==
    /\ last.op = "~Revert"
    /\ last.arg.guard.g.active
    /\ position(Pre) = position(last.arg.guard.born) + 2
    /\ area = last.arg.guard.born

\* C4: nested Revert objects destroyed innermost first: inner committed and
\* outer rolled back leaves the window of the outer construction; inner
\* rolled back and outer committed leaves the window of the inner
\* construction.
Thm_C4_nested ==
    (last.op = "~Revert" /\ last.arg.inner # <<>>) =>
        LET outer == last.arg.guard
            inner == last.arg.inner[1]
        IN  /\ (~inner.g.active /\ outer.g.active) => area = outer.born
            /\ (inner.g.active /\ ~outer.g.active) => area = inner.born

\* the inner object, made one byte further on, was committed; the outer
\* rollback undid the bytes consumed inside both
Wit_C4_nested ==
    /\ last.op = "~Revert"
    /\ last.arg.inner # <<>>
    /\ ~last.arg.inner[1].g.active
    /\ last.arg.guard.g.active
    /\ position(last.arg.inner[1].born) = position(last.arg.guard.born) + 1
    /\ position(Pre) > position(last.arg.inner[1].born)
    /\ area = last.arg.guard.born

\* C5: a Token captured at position P, after successful advances of N bytes
\* in total and no reset or rollback, has start() = P, end() = P + N,
\* size() = N, and text() equal to the N bytes at offsets P .. P+N-1.
Thm_C5_token ==
    \A i \in DOMAIN tok :
        tok[i].clean =>
            LET t == tok[i].t
                P == tok[i].P
                N == tok[i].N
            IN  /\ tokenStart(t) = P
                /\ tokenEnd(t, area) = P + N
                /\ tokenSize(t, area) = N
                /\ tokenText(t, area) = [j \in 1..N |-> bytes[area.eback + P + j - 1]]

\* a token captured at position 1 with two different bytes consumed since
Wit_C5_token ==
    /\ tok # <<>>
    /\ tok[1].clean
    /\ tok[1].P = 1
    /\ tok[1].N = 2
    /\ tokenText(tok[1].t, area) = <<51, 72>>

\* C7: feed(data, len) succeeds iff size + len < N; when it fails the stored
\* bytes, size and the window (start, current, end) are unchanged.
Thm_C7_feed ==
    last.op = "feed" =>
        /\ last.ret = (last.preSize + Len(last.arg) < ArrayN)
        /\ last.ret = FALSE =>
              (bytes = last.preBytes /\ size = last.preSize /\ area = Pre)

\* a feed that would fill a partly filled array exactly, refused
Wit_C7_feed ==
    /\ last.op = "feed"
    /\ last.preSize > 0
    /\ Len(last.arg) > 0
    /\ last.preSize + Len(last.arg) = ArrayN
    /\ last.ret = FALSE

\* C6: for any initial capacity and maxSize, of the bytes written one at a
\* time the first maxSize succeed, every later one fails with EOF and writes
\* nothing, and the length buffer() reports stays at maxSize.
Cex_C6_growable ==
    nsLast # "none" =>
        IF nsWrites <= maxSize_
        THEN /\ nsLast = "ok"
             /\ nsOk = nsWrites
             /\ bufferLen = nsWrites
        ELSE /\ nsLast = "eof"
             /\ nsOk = maxSize_
             /\ bufferLen = maxSize_

\* C11: match_until returns true iff some unread byte equals one of the
\* targets under the case policy (Sensitive: exact; Insensitive: both sides
\* folded); on true the cursor is at the first such byte, on false it is at
\* the end of the window; start and end never change.
Cex_C11_until ==
    last.op = "match_until" =>
        LET chars == last.arg[1]
            cs == last.arg[2]
            hit(i) == \E c \in chars :
                          IF cs = Sensitive
                          THEN c = bytes[i]
                          ELSE tolower(c) = tolower(bytes[i])
            hits == {i \in Pre.gptr..(Pre.egptr - 1) : hit(i)}
        IN  /\ last.ret = (hits # {})
            /\ last.ret = TRUE =>
                  (area.gptr \in hits /\ \A i \in hits : area.gptr <= i)
            /\ last.ret = FALSE => area.gptr = area.egptr
            /\ area.eback = Pre.eback
            /\ area.egptr = Pre.egptr

\* C18: match_raw(bytes, len, cursor) returns true iff remaining() >= len and
\* the len bytes at current equal bytes; on true the cursor advances by
\* exactly len, on false nothing is consumed; len = 0 gives true and consumes
\* nothing.
Thm_C18_raw ==
    last.op = "match_raw" =>
        LET buf == last.arg
            len == Len(last.arg)
            same == /\ PreLeft >= len
                    /\ \A i \in 1..len : bytes[Pre.gptr + i - 1] = buf[i]
        IN  /\ last.ret = same
            /\ last.ret = TRUE => area = [Pre EXCEPT !.gptr = @ + len]
            /\ last.ret = FALSE => area = Pre

\* two bytes matched in the middle of a window and consumed
Wit_C18_raw ==
    /\ last.op = "match_raw"
    /\ Len(last.arg) = 2
    /\ last.arg[1] # last.arg[2]
    /\ position(Pre) = 1
    /\ last.ret = TRUE
    /\ position(area) = 3

\* C12: when the text at the current position is no numeric literal (zero
\* characters parsed), match_double returns false, *val holds the value it
\* held before the call, and the window is unchanged.
Cex_C12_noprogress ==
    (last.op = "match_double" /\ strtod_end(Pre.gptr) = Pre.gptr) =>
        /\ last.ret = FALSE
        /\ last.arg.out = last.arg.val
        /\ area = Pre

\* The indices of bytes the last call read.
Reads ==
    CASE last.op = "next" -> reads_next(Pre)
      [] last.op = "eol" -> reads_eol(Pre)
      [] last.op = "match_raw" -> reads_match_raw(last.arg, Len(last.arg), Pre)
      [] last.op = "match_literal" -> reads_match_literal(Pre)
      [] last.op = "match_until" -> reads_match_until(last.arg[1], Pre, last.arg[2])
      [] last.op = "match_double" -> reads_match_double(Pre)
      [] OTHER -> {}

\* C13: no cursor operation or matcher reads a byte at an index >= end of
\* the window, also when the window is a strict prefix of a larger region.
Cex_C13_bounds == \A i \in Reads : i < Pre.egptr

RECURSIVE skipIn(_, _, _)
\* first index at or after p, before lim, whose byte is not in class S
skipIn(p, S, lim) == IF p < lim /\ bytes[p] \in S THEN skipIn(p + 1, S, lim) ELSE p

\* is the byte at p, before lim, one of S
peekIn(p, S, lim) == p < lim /\ bytes[p] \in S

\* The number of characters of the window w, from current, that the numeric
\* grammar consumes: white space, optional sign, digits with an optional
\* '.', optional exponent; 0 without a digit.
NumLen(w) ==
    LET lim == w.egptr
        s0 == skipIn(w.gptr, Space, lim)
        s1 == IF peekIn(s0, Sign, lim) THEN s0 + 1 ELSE s0
        d1 == skipIn(s1, Digit, lim)
        dot == peekIn(d1, {46}, lim)
        f1 == IF dot THEN skipIn(d1 + 1, Digit, lim) ELSE d1
        digits == (d1 - s1) + (IF dot THEN f1 - (d1 + 1) ELSE 0)
        e1 == IF peekIn(f1 + 1, Sign, lim) THEN f1 + 2 ELSE f1 + 1
        e2 == skipIn(e1, Digit, lim)
    IN  IF digits = 0 THEN 0
        ELSE IF peekIn(f1, Expo, lim) /\ e2 > e1 THEN e2 - w.gptr
        ELSE f1 - w.gptr

\* C14: whenever match_double returns true the position has increased by
\* exactly the number of characters the numeric grammar consumed, for every
\* window, also one that ends inside or right after the numeric text of the
\* region.
Cex_C14_double ==
    (last.op = "match_double" /\ last.ret = TRUE) =>
        position(area) = position(Pre) + NumLen(Pre)

\* C15: after a successful feed of len bytes with previous size s the bytes
\* are stored at s .. s+len-1, size = s + len, and the window is start =
\* array base, current = base + s, end = base + s + len.
Thm_C15_fed ==
    (last.op = "feed" /\ last.ret = TRUE) =>
        LET s == last.preSize
            len == Len(last.arg)
        IN  /\ \A i \in 0..(len - 1) : bytes[s + i] = last.arg[i + 1]
            /\ size = s + len
            /\ area = Area(0, s, s + len)

\* two different bytes fed behind one already there
Wit_C15_fed ==
    /\ last.op = "feed"
    /\ last.ret = TRUE
    /\ last.preSize = 1
    /\ last.arg = <<LF, 72>>
    /\ size = 3

\* C19: a successful feed of len bytes does not change the read position and
\* increases remaining() by exactly len, so bytes fed earlier and not yet
\* consumed stay readable before the new ones.
Cex_C19_unread ==
    (last.op = "feed" /\ last.ret = TRUE) =>
        /\ position(area) = position(Pre)
        /\ remaining(area) = PreLeft + Len(last.arg)

\* C20: after ArrayStreamBuf::reset() or StreamCursor::reset() size is 0 and
\* the window is empty, and the next feed of any len < N succeeds with its
\* bytes readable from position 0.
Cex_C20_reset ==
    /\ last.op \in {"ArrayStreamBuf::reset", "reset"} =>
          (size = 0 /\ area.gptr = area.egptr)
    /\ (/\ last.op = "feed"
        /\ Pre = reset \/ (Pre = Area(0, 0, 0) /\ last.preSize = 0)
        /\ Len(last.arg) < ArrayN) =>
          /\ last.ret = TRUE
          /\ position(area) = 0
          /\ remaining(area) = Len(last.arg)
          /\ \A i \in 1..Len(last.arg) : bytes[area.eback + i - 1] = last.arg[i]

\* C16: in every state reached through construction, advance, the matchers,
\* feed, the two resets and Revert construction, rollback and commit, the
\* window has start <= current <= end, and position() = current - start is
\* an offset between 0 and end - start.
Thm_C16_window ==
    /\ area.eback <= area.gptr
    /\ area.gptr <= area.egptr
    /\ position(area) = area.gptr - area.eback
    /\ position(area) >= 0
    /\ position(area) <= area.egptr - area.eback

\* a rollback over StreamCursor::reset that brings back a window read up to
\* position 1
Wit_C16_window ==
    /\ last.op = "~Revert"
    /\ last.arg.guard.g.active
    /\ Pre = reset
    /\ area.egptr >= 2
    /\ position(area) = 1

\* C17: in every state of an ArrayStreamBuf<N> reached through feed, advance,
\* the two resets and Revert rollback the window's start is the base of the
\* array and size <= N, and right after a successful feed end = start + size.
Cex_C17_array ==
    /\ area.eback = 0
    /\ size <= ArrayN
    /\ (last.op = "feed" /\ last.ret = TRUE) => area.egptr = area.eback + size
====
